---- MODULE Spec2Model ----
(***************************************************************************)
(* HDF5Format (qcodes/data/hdf5_format.py): incremental write of a data    *)
(* set into an HDF5 container, read back of the container, and the two     *)
(* text helpers str_to_bool and _encode_to_utf8.                           *)
(*                                                                         *)
(* An in-memory array is a 1-D sequence of samples (NaN = not yet          *)
(* measured) with its meta data.  A stored array (h5py dataset) is a       *)
(* sequence of rows, each row a sequence of `cols` cells, plus attributes. *)
(***************************************************************************)
EXTENDS Integers, Sequences, FiniteSets, TLC

VARIABLES data_set,     \* the DataSet handed to write: [location, keys, arrays]
          data_object,  \* HDF5Format.data_object: None or a handle, given by
                        \* the path of the file it is open on
          arr_group,    \* HDF5Format.arr_group: Unset or the arrays group
          files,        \* the containers on disk, by file path
          read_set,     \* the DataSet that read populates
          last,         \* the last call made on the formatter and its outcome
          appending,    \* history: so far samples were only added and no
                        \* write was forced
          edits,        \* history: number of meta-data edits made so far
          instrument,   \* the state of the instrument a driver talks to
          call          \* the driver call in progress or last made

vars ==
    <<data_set, data_object, arr_group, files, read_set, last, appending, edits,
      instrument, call>>

\* the variables of the formatter and its data sets
hdf5_vars ==
    <<data_set, data_object, arr_group, files, read_set, last, appending, edits>>

\* the variables of the instrument drivers
driver_vars == <<instrument, call>>

----------------------------------------------------------------------------
(* Bounds *)

\* the frequencies a sweep can be set to, in Hz: 0..MaxFreq
MaxFreq == 6

\* the events other than operation-complete an instrument raises in a run
MaxEvents == 2

\* declared (preallocated) length of every in-memory array
MaxLen == 2

\* number of meta-data edits the measurement layer makes in SpecMeta
MaxEdits == 2

\* longest list handed to _encode_to_utf8 in SpecEncode
MaxItems == 2

----------------------------------------------------------------------------
(* Values *)

ArrayIds == {"x", "y"}

\* Python's None (label, name, data_object)
None == "<None>"

\* HDF5Format.arr_group is a group object of an open file.  file is the
\* path of that file; of tells whether the group was made from the handle
\* data_object holds now ("current") or from a handle data_object held
\* before ("earlier"), which the group keeps open.
ArrGroup(path, of) == [file |-> path, of |-> of]

\* an attribute of the formatter that was never assigned
Unset == ArrGroup(None, "none")

\* data_set.location, as its path components
HomeLocation == <<"data", "a">>

Locations == {<<"data", "a">>, <<"data", "b">>}

\* np.nan, the not-yet-measured sentinel of a preallocated array
NaN == -1

\* h5py fills the cells a resize adds with the dataset's fill value; the
\* dataset is created without fillvalue, so it is 0
FillValue == 0

\* the sample the measurement loop stores at position i of array id
Sample(id, i) == IF id = "x" THEN i ELSE 10 + i

\* units descriptors: absent, a text, or a list of texts.  elems are the
\* items len() counts: the characters of a text, the entries of a list.
UnitsNone == [kind |-> "none", elems |-> <<>>]
UnitsStr(chars) == [kind |-> "str", elems |-> chars]
UnitsList(items) == [kind |-> "list", elems |-> items]

RECURSIVE Concat(_)
Concat(ss) == IF ss = <<>> THEN "" ELSE Head(ss) \o Concat(Tail(ss))

RECURSIVE JoinRepr(_)
JoinRepr(ss) ==
    IF ss = <<>> THEN ""
    ELSE IF Len(ss) = 1 THEN "'" \o Head(ss) \o "'"
    ELSE "'" \o Head(ss) \o "', " \o JoinRepr(Tail(ss))

\* str(units) as _create_dataarray_dset applies it
StrUnits(u) ==
    IF u.kind = "str" THEN Concat(u.elems)
    ELSE IF u.kind = "list" THEN "[" \o JoinRepr(u.elems) \o "]"
    ELSE "None"

\* str(bool)
StrBool(b) == IF b THEN "True" ELSE "False"

\* _encode_to_utf8 on a text: the bytes object holding its UTF-8 encoding
encode_to_utf8(s) == [utf8 |-> s]

\* bytes.decode()
decode(b) == b.utf8

\* str_to_bool taking every text other than 'True' for False
str_to_bool_lenient(s) ==
    IF s = "True" THEN [raised |-> FALSE, value |-> TRUE]
    ELSE [raised |-> FALSE, value |-> FALSE]

\* str_to_bool: returns True for 'True', False for 'False', raises ValueError
\* for every other text
str_to_bool(s) ==
    IF s = "True" THEN [raised |-> FALSE, value |-> TRUE]
    ELSE IF s = "False" THEN [raised |-> FALSE, value |-> FALSE]
    ELSE [raised |-> TRUE, value |-> FALSE]

\* the components of a path joined by '/'
RECURSIVE PathStr(_)
PathStr(parts) ==
    IF Len(parts) = 1 THEN Head(parts)
    ELSE Head(parts) \o "/" \o PathStr(Tail(parts))

\* lines 93-96: io_manager.join(location + '/{}.hdf5'.format(filename))
\* with filename = os.path.split(location)[-1], relative to the io
\* manager's base
FilePath(location) ==
    PathStr(location) \o "/" \o location[Len(location)] \o ".hdf5"

FilePaths == {FilePath(location) : location \in Locations}

\* no instrument is connected and no driver call was made
NoInstrument == [model |-> "none"]

NoDriverCall == [op |-> "none", pc |-> "done"]

----------------------------------------------------------------------------
(* numpy / h5py primitives used by write *)

\* len(x[~np.isnan(x)]): the number of non-NaN samples of the array
new_dlen_of(x) == Cardinality({i \in 1..Len(x) : x[i] # NaN})

\* x[old:new] of a 1-D array
Slice(x, old, new) ==
    IF new <= old THEN <<>> ELSE SubSeq(x, old + 1, new)

\* ndarray.reshape((n, cols)) is defined only when the sizes agree
CanReshape(s, n, cols) == Len(s) = n * cols

Reshape(s, n, cols) ==
    [r \in 1..n |-> [c \in 1..cols |-> s[(r - 1) * cols + c]]]

\* h5py Dataset.resize((n, cols)): rows beyond n are dropped, rows added
\* hold the fill value
Resize(rows, n, cols) ==
    IF n <= Len(rows) THEN SubSeq(rows, 1, n)
    ELSE rows \o [i \in 1..(n - Len(rows)) |-> [c \in 1..cols |-> FillValue]]

\* dset[old:new] = value, value of shape (n, cols); rows is already resized
\* to new rows.  An empty selection returns without writing.
AssignRows(rows, old, new, value) ==
    IF new <= old THEN rows
    ELSE [i \in 1..Len(rows) |->
             IF i > old /\ i <= new THEN value[i - old] ELSE rows[i]]

----------------------------------------------------------------------------
(* HDF5Format.write *)

\* _create_file: h5py.File(filepath, 'a') creates the container when it does
\* not exist and opens it otherwise
create_file(f) ==
    IF f.exists THEN f
    ELSE [exists |-> TRUE, has_group |-> FALSE, dsets |-> <<>>,
          has_meta |-> FALSE, meta |-> <<>>]

\* dset_attrs storing set_arrays for setpoint arrays as well
dset_attrs_always_set_arrays(array_id, array, units) ==
    LET label == IF array.label # None THEN array.label ELSE array_id
        name == IF array.name # None THEN array.name ELSE array_id
    IN  [a \in {"label", "name", "units", "is_setpoint", "set_arrays"} |->
            CASE a = "label" -> encode_to_utf8(label)
              [] a = "name" -> encode_to_utf8(name)
              [] a = "units" -> encode_to_utf8(StrUnits(units))
              [] a = "is_setpoint" ->
                    encode_to_utf8(StrBool(array.is_setpoint))
              [] OTHER -> [i \in 1..Len(array.set_arrays) |->
                              encode_to_utf8(array.set_arrays[i])]]

\* the attributes _create_dataarray_dset stores on a new h5py dataset
dset_attrs(array_id, array, units) ==
    LET label == IF array.label # None THEN array.label ELSE array_id
        name == IF array.name # None THEN array.name ELSE array_id
        base == [a \in {"label", "name", "units", "is_setpoint"} |->
                    CASE a = "label" -> encode_to_utf8(label)
                      [] a = "name" -> encode_to_utf8(name)
                      [] a = "units" -> encode_to_utf8(StrUnits(units))
                      [] OTHER -> encode_to_utf8(StrBool(array.is_setpoint))]
        ids == [i \in 1..Len(array.set_arrays) |->
                    encode_to_utf8(array.set_arrays[i])]
    IN  IF ~array.is_setpoint
        THEN [a \in DOMAIN base \cup {"set_arrays"} |->
                 IF a = "set_arrays" THEN ids ELSE base[a]]
        ELSE base

\* _create_dataarray_dset allocating one column whatever the units are
create_dataarray_dset_one_column(S, array_id) ==
    LET array == S.ds.arrays[array_id]
        units == IF array.units = UnitsNone THEN UnitsList(<<"">>)
                 ELSE array.units
        ds1 == [S.ds EXCEPT !.arrays[array_id].units = units]
        dset == [rows |-> <<>>,
                 cols |-> 1,
                 attrs |-> dset_attrs(array_id, array, units)]
    IN  IF array_id \in DOMAIN S.file.dsets
        THEN [S EXCEPT !.ds = ds1, !.result = "NameExists"]
        ELSE [S EXCEPT !.ds = ds1,
                       !.file.dsets = (array_id :> dset) @@ S.file.dsets]

\* _create_dataarray_dset filling in an absent label of the in-memory array
\* as it does for absent units
create_dataarray_dset_fills_label(S, array_id) ==
    LET array == S.ds.arrays[array_id]
        units == IF array.units = UnitsNone THEN UnitsList(<<"">>)
                 ELSE array.units
        label == IF array.label # None THEN array.label ELSE array_id
        ds1 == [S.ds EXCEPT !.arrays[array_id].units = units,
                            !.arrays[array_id].label = label]
        dset == [rows |-> <<>>,
                 cols |-> Len(units.elems),
                 attrs |-> dset_attrs(array_id, array, units)]
    IN  IF array_id \in DOMAIN S.file.dsets
        THEN [S EXCEPT !.ds = ds1, !.result = "NameExists"]
        ELSE [S EXCEPT !.ds = ds1,
                       !.file.dsets = (array_id :> dset) @@ S.file.dsets]

\* _create_dataarray_dset(array, group) on the state S of one write call.
\* units = None is replaced in the in-memory array before the dataset is
\* created; h5py's create_dataset raises when the name is already taken.
create_dataarray_dset(S, array_id) ==
    LET array == S.ds.arrays[array_id]
        units == IF array.units = UnitsNone THEN UnitsList(<<"">>)
                 ELSE array.units
        ds1 == [S.ds EXCEPT !.arrays[array_id].units = units]
        dset == [rows |-> <<>>,
                 cols |-> Len(units.elems),
                 attrs |-> dset_attrs(array_id, array, units)]
    IN  IF array_id \in DOMAIN S.file.dsets
        THEN [S EXCEPT !.ds = ds1, !.result = "NameExists"]
        ELSE [S EXCEPT !.ds = ds1,
                       !.file.dsets = (array_id :> dset) @@ S.file.dsets]

\* lines 112-121: resize the stored array to the populated length and
\* assign the new slice
append_rows(S, array_id) ==
    LET dset == S.file.dsets[array_id]
        old_dlen == Len(dset.rows)
        x == S.ds.arrays[array_id].ndarray
        new_dlen == new_dlen_of(x)
        resized == Resize(dset.rows, new_dlen, dset.cols)
        slice == Slice(x, old_dlen, new_dlen)
        S1 == [S EXCEPT !.file.dsets[array_id].rows = resized]
    IN  IF ~CanReshape(slice, new_dlen, dset.cols)
        THEN [S1 EXCEPT !.result = "ValueError"]
        ELSE [S1 EXCEPT !.file.dsets[array_id].rows =
                 AssignRows(resized, old_dlen, new_dlen,
                            Reshape(slice, new_dlen, dset.cols))]

\* write_array storing the attributes again on every call
write_array_refresh_attrs(S, array_id, force_write) ==
    IF S.grp = Unset
    THEN [S EXCEPT !.result = "AttributeError"]
    ELSE LET S1 == IF array_id \notin DOMAIN S.file.dsets \/ force_write
                   THEN create_dataarray_dset(S, array_id)
                   ELSE [S EXCEPT !.file.dsets[array_id].attrs =
                            dset_attrs(array_id, S.ds.arrays[array_id],
                                       S.ds.arrays[array_id].units)]
         IN  IF S1.result # "ok" THEN S1 ELSE append_rows(S1, array_id)

\* one pass of the loop of write over array_id
write_array(S, array_id, force_write) ==
    IF S.grp = Unset
    THEN [S EXCEPT !.result = "AttributeError"]
    ELSE LET S1 == IF array_id \notin DOMAIN S.file.dsets \/ force_write
                   THEN create_dataarray_dset(S, array_id)
                   ELSE S
         IN  IF S1.result # "ok" THEN S1 ELSE append_rows(S1, array_id)

\* the loop of write: the first exception ends the call
RECURSIVE write_loop(_, _, _)
write_loop(S, keys, force_write) ==
    IF keys = <<>> \/ S.result # "ok" THEN S
    ELSE write_loop(write_array(S, Head(keys), force_write),
                    Tail(keys), force_write)

\* a write that opens a file only while it holds none
must_open_unless_held(obj, force_write) == obj = None

\* line 90: if self.data_object is None or force_write
must_open(obj, force_write) == obj = None \/ force_write

\* HDF5Format.write(data_set, force_write) as a function of the state; fs
\* are the containers on disk.  The loop works on the container arr_group
\* belongs to.  opened is the path the call opened, or None.
write(ds, obj, grp, fs, force_write) ==
    LET opened == must_open(obj, force_write)
        filepath == FilePath(ds.location)
        fs1 == IF opened THEN [fs EXCEPT ![filepath] = create_file(@)] ELSE fs
        obj1 == IF opened THEN filepath ELSE obj
        grp0 == IF opened /\ grp.of = "current"
                THEN ArrGroup(grp.file, "earlier") ELSE grp
        make == ~fs1[obj1].has_group
        fs2 == IF make THEN [fs1 EXCEPT ![obj1].has_group = TRUE] ELSE fs1
        grp1 == IF make THEN ArrGroup(obj1, "current") ELSE grp0
        S == [ds |-> ds, obj |-> obj1, grp |-> grp1,
              file |-> IF grp1 = Unset THEN fs2[obj1] ELSE fs2[grp1.file],
              result |-> "ok"]
        T == write_loop(S, ds.keys, force_write)
    IN  [ds |-> T.ds, obj |-> obj1, grp |-> grp1,
         files |-> IF grp1 = Unset THEN fs2
                   ELSE [fs2 EXCEPT ![grp1.file] = T.file],
         result |-> T.result,
         opened |-> IF opened THEN filepath ELSE None]

----------------------------------------------------------------------------
(* The measurement layer *)

NaNs == [i \in 1..MaxLen |-> NaN]

NewArray(is_setpoint, set_arrays) ==
    [ndarray |-> NaNs, label |-> None, name |-> None, units |-> UnitsNone,
     is_setpoint |-> is_setpoint, set_arrays |-> set_arrays]

NoCall ==
    [op |-> "none", force_write |-> FALSE, result |-> "ok", opened |-> None]

\* has_meta, meta: the 'Meta-data' group and its instrument groups
EmptyFile ==
    [exists |-> FALSE, has_group |-> FALSE, dsets |-> <<>>,
     has_meta |-> FALSE, meta |-> <<>>]

EmptySet == [keys |-> <<>>, arrays |-> <<>>]

\* no container exists yet
NoFiles == [path \in FilePaths |-> EmptyFile]

\* the container at the path write derives from the data set's location
file == files[FilePath(data_set.location)]

\* the data set of the spec's scenario: setpoint x, y measured against x
Init ==
    /\ \E keys \in {<<"x", "y">>, <<"y", "x">>} :
          data_set = [location |-> HomeLocation, keys |-> keys,
                      arrays |-> [id \in ArrayIds |->
                                    IF id = "x" THEN NewArray(TRUE, <<>>)
                                    ELSE NewArray(FALSE, <<"x">>)]]
    /\ data_object = None
    /\ arr_group = Unset
    /\ files = NoFiles
    /\ read_set = EmptySet
    /\ last = NoCall
    /\ appending = TRUE
    /\ edits = 0
    /\ instrument = NoInstrument
    /\ call = NoDriverCall

\* the measurement loop stores a sample
SetSample(id, i) ==
    /\ data_set.arrays[id].ndarray[i] = NaN
    /\ data_set' = [data_set EXCEPT !.arrays[id].ndarray[i] = Sample(id, i)]
    /\ last' = NoCall
    /\ UNCHANGED <<data_object, arr_group, files, read_set, appending, edits,
                   driver_vars>>

\* a sample is reset to NaN
ClearSample(id, i) ==
    /\ data_set.arrays[id].ndarray[i] # NaN
    /\ data_set' = [data_set EXCEPT !.arrays[id].ndarray[i] = NaN]
    /\ last' = NoCall
    /\ appending' = FALSE
    /\ UNCHANGED <<data_object, arr_group, files, read_set, edits, driver_vars>>

Write(force_write) ==
    LET S == write(data_set, data_object, arr_group, files, force_write)
    IN  /\ data_set' = S.ds
        /\ data_object' = S.obj
        /\ arr_group' = S.grp
        /\ files' = S.files
        /\ last' = [op |-> "write", force_write |-> force_write,
                    result |-> S.result, opened |-> S.opened]
        /\ appending' = (appending /\ ~force_write)
        /\ UNCHANGED <<read_set, edits, driver_vars>>

Next ==
    \/ \E id \in ArrayIds, i \in 1..MaxLen : SetSample(id, i)
    \/ \E id \in ArrayIds, i \in 1..MaxLen : ClearSample(id, i)
    \/ \E force_write \in BOOLEAN : Write(force_write)

Spec == Init /\ [][Next]_vars

----------------------------------------------------------------------------
(* The measurement layer changing meta data between writes: SpecMeta *)

LabelValues == {None, "L"}
NameValues == {None, "N"}
UnitsValues ==
    {UnitsNone, UnitsStr(<<"m", "V">>), UnitsList(<<"V", "A", "s">>)}
SetArraysValues == {<<>>, <<"x">>, <<"y", "x">>}

\* arrays with any setpoint flags; the arrays of `populated` hold one sample
InitMeta ==
    /\ \E keys \in {<<"x", "y">>, <<"y", "x">>},
          setpoints \in SUBSET ArrayIds, populated \in SUBSET ArrayIds :
          data_set =
              [location |-> HomeLocation, keys |-> keys,
               arrays |-> [id \in ArrayIds |->
                   [NewArray(id \in setpoints,
                             IF id = "y" THEN <<"x">> ELSE <<>>)
                    EXCEPT !.ndarray[1] =
                        IF id \in populated THEN Sample(id, 1) ELSE NaN]]]
    /\ data_object = None
    /\ arr_group = Unset
    /\ files = NoFiles
    /\ read_set = EmptySet
    /\ last = NoCall
    /\ appending = TRUE
    /\ edits = 0
    /\ instrument = NoInstrument
    /\ call = NoDriverCall

Edit(arrays) ==
    /\ edits < MaxEdits
    /\ arrays # data_set.arrays
    /\ data_set' = [data_set EXCEPT !.arrays = arrays]
    /\ edits' = edits + 1
    /\ last' = NoCall
    /\ UNCHANGED <<data_object, arr_group, files, read_set, appending,
                   driver_vars>>

SetLabel(id, v) == Edit([data_set.arrays EXCEPT ![id].label = v])

SetName(id, v) == Edit([data_set.arrays EXCEPT ![id].name = v])

SetUnits(id, v) == Edit([data_set.arrays EXCEPT ![id].units = v])

SetSetArrays(id, v) == Edit([data_set.arrays EXCEPT ![id].set_arrays = v])

NextMeta ==
    \/ \E id \in ArrayIds, v \in LabelValues : SetLabel(id, v)
    \/ \E id \in ArrayIds, v \in NameValues : SetName(id, v)
    \/ \E id \in ArrayIds, v \in UnitsValues : SetUnits(id, v)
    \/ \E id \in ArrayIds, v \in SetArraysValues : SetSetArrays(id, v)
    \/ \E force_write \in BOOLEAN : Write(force_write)

SpecMeta == InitMeta /\ [][NextMeta]_vars

----------------------------------------------------------------------------
(* HDF5Format.read *)

\* a reference to the DataArray object held under array_id by the data set
Ref(array_id) == [object |-> array_id]

\* the orders in which the keys of S can be iterated
Orders(S) ==
    {o \in [1..Cardinality(S) -> S] :
        \A i, j \in 1..Cardinality(S) : o[i] = o[j] => i = j}

\* dat_arr.value[:-1, 0]: column 0 without the last stored row
Column0_but_last(rows) == [i \in 1..(Len(rows) - 1) |-> rows[i][1]]

\* dat_arr.value[:, 0]
Column0(rows) == [i \in 1..Len(rows) |-> rows[i][1]]

\* lines 52-78 for one stored array: decode the attributes, build the
\* DataArray with empty set_arrays, add it to the data set under array_id
\* and note the referenced ids in _sa_array_ids.  R = [rs, result].
read_array(R, f, array_id) ==
    LET attrs == f.dsets[array_id].attrs
        label == IF "label" \in DOMAIN attrs THEN decode(attrs["label"])
                 ELSE None
        name == IF "name" \in DOMAIN attrs THEN decode(attrs["name"])
                ELSE array_id
        units == IF "units" \in DOMAIN attrs THEN decode(attrs["units"])
                 ELSE None
        is_setpoint == str_to_bool(decode(attrs["is_setpoint"]))
        ids == IF is_setpoint.value THEN <<>>
               ELSE [i \in 1..Len(attrs["set_arrays"]) |->
                        decode(attrs["set_arrays"][i])]
        d_array == [name |-> name, label |-> label, units |-> units,
                    is_setpoint |-> is_setpoint.value, set_arrays |-> <<>>,
                    sa_array_ids |-> ids,
                    ndarray |-> Column0(f.dsets[array_id].rows)]
    IN  IF "is_setpoint" \notin DOMAIN attrs
        THEN [R EXCEPT !.result = "KeyError"]
        ELSE IF is_setpoint.raised
        THEN [R EXCEPT !.result = "ValueError"]
        ELSE IF ~is_setpoint.value /\ "set_arrays" \notin DOMAIN attrs
        THEN [R EXCEPT !.result = "KeyError"]
        ELSE [R EXCEPT !.rs.keys = Append(R.rs.keys, array_id),
                       !.rs.arrays = (array_id :> d_array) @@ R.rs.arrays]

\* the first loop of read, over the stored array ids in iteration order
RECURSIVE read_loop(_, _, _)
read_loop(R, f, order) ==
    IF order = <<>> \/ R.result # "ok" THEN R
    ELSE read_loop(read_array(R, f, Head(order)), f, Tail(order))

\* read_array followed at once by the resolution of the ids it noted
read_array_resolving(R, f, array_id) ==
    LET R1 == read_array(R, f, array_id)
    IN  IF R1.result # "ok" THEN R1
        ELSE LET ids == R1.rs.arrays[array_id].sa_array_ids
                 known == \A i \in 1..Len(ids) : ids[i] \in DOMAIN R1.rs.arrays
             IN  IF ~known THEN [R1 EXCEPT !.result = "KeyError"]
                 ELSE [R1 EXCEPT !.rs.arrays[array_id].set_arrays =
                          [i \in 1..Len(ids) |-> Ref(ids[i])]]

\* a read that resolves the referenced ids while it constructs each array
RECURSIVE read_one_pass(_, _, _)
read_one_pass(R, f, order) ==
    IF order = <<>> \/ R.result # "ok" THEN R
    ELSE read_one_pass(read_array_resolving(R, f, Head(order)), f,
                       Tail(order))

\* resolve_ids passing over the ids that name no array of the data set
RECURSIVE resolve_ids_skip_unknown(_, _, _)
resolve_ids_skip_unknown(R, array_id, ids) ==
    IF ids = <<>> \/ R.result # "ok" THEN R
    ELSE IF Head(ids) \notin DOMAIN R.rs.arrays
    THEN resolve_ids_skip_unknown(R, array_id, Tail(ids))
    ELSE resolve_ids_skip_unknown(
             [R EXCEPT !.rs.arrays[array_id].set_arrays =
                  Append(@, Ref(Head(ids)))],
             array_id, Tail(ids))

\* lines 84-85 for one array: append the referenced DataArray objects
RECURSIVE resolve_ids(_, _, _)
resolve_ids(R, array_id, ids) ==
    IF ids = <<>> \/ R.result # "ok" THEN R
    ELSE IF Head(ids) \notin DOMAIN R.rs.arrays
    THEN [R EXCEPT !.result = "KeyError"]
    ELSE resolve_ids(
             [R EXCEPT !.rs.arrays[array_id].set_arrays =
                  Append(@, Ref(Head(ids)))],
             array_id, Tail(ids))

\* the second loop of read, over data_set.arrays
RECURSIVE resolve_loop(_, _)
resolve_loop(R, keys) ==
    IF keys = <<>> \/ R.result # "ok" THEN R
    ELSE resolve_loop(
             resolve_ids(R, Head(keys),
                         R.rs.arrays[Head(keys)].sa_array_ids),
             Tail(keys))

\* the two loops of read: construct every array, then resolve the ids
read_arrays(R, f, order) ==
    LET R1 == read_loop(R, f, order)
    IN  resolve_loop(R1, R1.rs.keys)

\* HDF5Format.read(data_set) on an empty data set whose location is the
\* container f; order is the iteration order of the stored array ids.
\* h5py.File(filepath, 'r+') raises when the file does not exist.
read(f, order) ==
    LET R0 == [rs |-> [keys |-> <<>>, arrays |-> <<>>], result |-> "ok"]
    IN  IF ~f.exists THEN [R0 EXCEPT !.result = "OSError"]
        ELSE IF ~f.has_group THEN [R0 EXCEPT !.result = "KeyError"]
        ELSE read_arrays(R0, f, order)

----------------------------------------------------------------------------
(* Writing, reading back and hand-edited containers: SpecRead *)

\* set_arrays may name an array "z" that is not part of the data set
InitRead ==
    /\ \E keys \in {<<"x", "y">>, <<"y", "x">>},
          setpoints \in SUBSET ArrayIds,
          sx \in {<<>>, <<"y">>},
          sy \in {<<>>, <<"x">>, <<"x", "y">>, <<"z">>} :
          data_set =
              [location |-> HomeLocation, keys |-> keys,
               arrays |-> [id \in ArrayIds |->
                   [NewArray(id \in setpoints, IF id = "x" THEN sx ELSE sy)
                    EXCEPT !.ndarray[1] = Sample(id, 1)]]]
    /\ data_object = None
    /\ arr_group = Unset
    /\ files = NoFiles
    /\ read_set = EmptySet
    /\ last = NoCall
    /\ appending = TRUE
    /\ edits = 0
    /\ instrument = NoInstrument
    /\ call = NoDriverCall

Read(order) ==
    LET filepath == FilePath(data_set.location)
        R == read(files[filepath], order)
        opened == files[filepath].exists
    IN  /\ data_object' = IF opened THEN filepath ELSE data_object
        /\ arr_group' = IF opened /\ arr_group.of = "current"
                        THEN ArrGroup(arr_group.file, "earlier")
                        ELSE arr_group
        /\ read_set' = R.rs
        /\ last' = [op |-> "read", force_write |-> FALSE, result |-> R.result,
                    opened |-> IF opened THEN filepath ELSE None]
        /\ UNCHANGED <<data_set, files, appending, edits, driver_vars>>

\* the is_setpoint attribute of a stored array is overwritten by hand
BadTokens == {"yes", "true", "1", ""}

Corrupt(id, token) ==
    /\ id \in DOMAIN file.dsets
    /\ file.dsets[id].attrs["is_setpoint"] # encode_to_utf8(token)
    /\ files' = [files EXCEPT
                    ![FilePath(data_set.location)].dsets[id].attrs["is_setpoint"] =
                        encode_to_utf8(token)]
    /\ last' = NoCall
    /\ UNCHANGED <<data_set, data_object, arr_group, read_set, appending,
                   edits, driver_vars>>

\* HDF5Format(): a new formatter replaces the one in use
NewFormatter ==
    /\ data_object # None
    /\ data_object' = None
    /\ arr_group' = Unset
    /\ last' = NoCall
    /\ UNCHANGED <<data_set, files, read_set, appending, edits, driver_vars>>

NextRead ==
    \/ \E force_write \in BOOLEAN : Write(force_write)
    \/ \E order \in Orders(DOMAIN file.dsets) : Read(order)
    \/ \E id \in ArrayIds, token \in BadTokens : Corrupt(id, token)
    \/ NewFormatter

SpecRead == InitRead /\ [][NextRead]_vars

----------------------------------------------------------------------------
(* Reading back between the writes of a measurement: SpecReadRows *)

NextReadRows ==
    \/ \E id \in ArrayIds, i \in 1..MaxLen : SetSample(id, i)
    \/ \E force_write \in BOOLEAN : Write(force_write)
    \/ \E order \in Orders(DOMAIN file.dsets) : Read(order)

SpecReadRows == Init /\ [][NextReadRows]_vars

----------------------------------------------------------------------------
(* _encode_to_utf8 on any Python value: SpecEncode *)

\* a Python value: its type, its str() form and, for a list, its items
PyValue(type, repr) == [type |-> type, repr |-> repr, items |-> <<>>]

PyList(items) == [type |-> "list", repr |-> "", items |-> items]

Texts == {PyValue("str", s) : s \in {"", "V", "mV", "x", "True"}}

NonTexts ==
    {PyValue("int", "0"), PyValue("int", "7"), PyValue("NoneType", "None"),
     PyValue("bool", "True"), PyValue("bool", "False")}

Lists ==
    UNION {{PyList(items) : items \in [1..n -> Texts \cup NonTexts]} :
              n \in 0..MaxItems}

\* _encode_to_utf8(s).  The second test, `type(s) == np.ndarray or list`,
\* is true for every value, so every value that is not a str is iterated:
\* iterating an int, None or a bool raises TypeError, and an item without
\* .encode raises AttributeError.
encode_to_utf8_value(s) ==
    IF s.type = "str"
    THEN [raised |-> "no", value |-> encode_to_utf8(s.repr)]
    ELSE IF s.type # "list"
    THEN [raised |-> "TypeError", value |-> <<>>]
    ELSE IF \E i \in 1..Len(s.items) : s.items[i].type # "str"
    THEN [raised |-> "AttributeError", value |-> <<>>]
    ELSE [raised |-> "no",
          value |-> [i \in 1..Len(s.items) |->
                        encode_to_utf8(s.items[i].repr)]]

InitEncode ==
    /\ \E s \in Texts \cup NonTexts \cup Lists :
          last = [op |-> "none", arg |-> s]
    /\ data_set = [location |-> HomeLocation, keys |-> <<>>, arrays |-> <<>>]
    /\ data_object = None
    /\ arr_group = Unset
    /\ files = NoFiles
    /\ read_set = EmptySet
    /\ appending = TRUE
    /\ edits = 0
    /\ instrument = NoInstrument
    /\ call = NoDriverCall

Encode ==
    /\ last.op = "none"
    /\ last' = [op |-> "_encode_to_utf8", arg |-> last.arg,
                result |-> encode_to_utf8_value(last.arg)]
    /\ UNCHANGED <<data_set, data_object, arr_group, files, read_set,
                   appending, edits, driver_vars>>

SpecEncode == InitEncode /\ [][Encode]_vars

----------------------------------------------------------------------------
(* One formatter used for data sets at several locations: SpecFiles *)

\* the caller hands write a data set that lives somewhere else
SetLocation(location) ==
    /\ location # data_set.location
    /\ data_set' = [data_set EXCEPT !.location = location]
    /\ last' = NoCall
    /\ UNCHANGED <<data_object, arr_group, files, read_set, appending, edits,
                   driver_vars>>

\* a parameter snapshot with and without its "value" entry
ParValue(value) == [has_value |-> TRUE, value |-> value]

ParNoValue == [has_value |-> FALSE, value |-> PyValue("NoneType", "None")]

\* station snapshots: the instruments in insertion order, and their
\* parameter snapshots
Snapshots ==
    LET instruments ==
            [dmm |-> [volt |-> ParValue(PyValue("int", "7")),
                      range |-> ParNoValue],
             gate |-> [volt |-> ParValue(PyValue("str", "V"))]]
    IN  {[order |-> <<"dmm", "gate">>, instruments |-> instruments],
         [order |-> <<"gate", "dmm">>, instruments |-> instruments],
         [order |-> <<"dmm">>,
          instruments |-> [dmm |-> [volt |-> ParNoValue]]]}

\* HDF5Format.save_instrument_snapshot(snapshot): its first statement reads
\* the name data_object, which is neither a local nor a global of the
\* module, so the call raises NameError before anything is stored.
save_instrument_snapshot(snapshot, fs) ==
    [files |-> fs, result |-> "NameError"]

SaveSnapshot(snapshot) ==
    LET S == save_instrument_snapshot(snapshot, files)
    IN  /\ data_object # None
        /\ files' = S.files
        /\ last' = [op |-> "save_instrument_snapshot", force_write |-> FALSE,
                    result |-> S.result, opened |-> None,
                    snapshot |-> snapshot]
        /\ UNCHANGED <<data_set, data_object, arr_group, read_set, appending,
                       edits, driver_vars>>

NextFiles ==
    \/ \E location \in Locations : SetLocation(location)
    \/ \E force_write \in BOOLEAN : Write(force_write)
    \/ \E order \in Orders(DOMAIN file.dsets) : Read(order)
    \/ \E snapshot \in Snapshots : SaveSnapshot(snapshot)
    \/ NewFormatter

SpecFiles == InitRead /\ [][NextFiles]_vars

----------------------------------------------------------------------------
(* Properties of the append path, checked under Spec *)

\* the rows the container holds for array id
Rows(id) == file.dsets[id].rows

\* the in-memory samples of array id
Samples(id) == data_set.arrays[id].ndarray

\* the length of the leading NaN-free prefix of x
RECURSIVE PrefixLen(_)
PrefixLen(x) ==
    IF x = <<>> \/ Head(x) = NaN THEN 0 ELSE 1 + PrefixLen(Tail(x))

\* array id is persisted: as many rows as populated samples, row i = sample i
Persisted(id) ==
    /\ id \in DOMAIN file.dsets
    /\ Len(Rows(id)) = new_dlen_of(Samples(id))
    /\ \A i \in 1..Len(Rows(id)) : Rows(id)[i] = <<Samples(id)[i]>>

\* C1: in a run of unforced write calls between which samples are only
\* added, every write call completes without error and leaves, for every
\* array, as many rows as populated samples with row i equal to sample i.
C1_AppendSucceeds ==
    (last.op = "write" /\ appending) =>
        (last.result = "ok" /\ \A id \in ArrayIds : Persisted(id))

\* C2: whatever happens to the in-memory arrays between calls, the row count
\* of a stored array never decreases and a persisted row never changes.
C2_RowsNeverShrink ==
    [][\A id \in DOMAIN file.dsets :
          /\ id \in DOMAIN file'.dsets
          /\ Len(file'.dsets[id].rows) >= Len(file.dsets[id].rows)
          /\ \A i \in 1..Len(file.dsets[id].rows) :
                file'.dsets[id].rows[i] = file.dsets[id].rows[i]]_vars

\* C3: an unforced write that directly follows a successful unforced write,
\* with no change to the data set in between, returns normally and leaves
\* the container as it was.
C3_SecondWriteNoOp ==
    [][(/\ last.op = "write" /\ last.result = "ok" /\ ~last.force_write
        /\ last'.op = "write" /\ ~last'.force_write)
       => (last'.result = "ok" /\ file' = file)]_vars

\* C4: a stored array never has more rows than the leading NaN-free prefix
\* of its in-memory array, and no stored row holds NaN.
C4_PrefixOnly ==
    \A id \in DOMAIN file.dsets :
        /\ last.op = "write" => Len(Rows(id)) <= PrefixLen(Samples(id))
        /\ \A i \in 1..Len(Rows(id)) :
              \A c \in 1..Len(Rows(id)[i]) : Rows(id)[i][c] # NaN

----------------------------------------------------------------------------
(* Properties of the stored meta data, checked under SpecMeta *)

\* len(array.units), with the placeholder [''] standing in for None
UnitsLen(u) == IF u = UnitsNone THEN 1 ELSE Len(u.elems)

Attrs(id) == file.dsets[id].attrs

\* what the array's label / name attribute is made from
LabelOf(id) ==
    IF data_set.arrays[id].label # None THEN data_set.arrays[id].label ELSE id

\* C5: a stored array gets as many columns as its units descriptor has
\* elements (1 when units is None) when it is created, keeps that column
\* count and row shape in every later step, and an unforced write that meets
\* an array with populated samples and more than one column ends with
\* ValueError.
C5_ColumnsFixed ==
    [][/\ \A id \in DOMAIN file'.dsets :
            /\ id \notin DOMAIN file.dsets =>
                  file'.dsets[id].cols = UnitsLen(data_set.arrays[id].units)
            /\ id \in DOMAIN file.dsets =>
                  file'.dsets[id].cols = file.dsets[id].cols
            /\ \A i \in 1..Len(file'.dsets[id].rows) :
                  Len(file'.dsets[id].rows[i]) = file'.dsets[id].cols
       /\ (/\ last'.op = "write" /\ ~last'.force_write
           /\ \E id \in DOMAIN file'.dsets :
                 /\ file'.dsets[id].cols > 1
                 /\ new_dlen_of(data_set.arrays[id].ndarray) > 0)
          => last'.result = "ValueError"]_vars

\* a write failed on a 3-column array whose in-memory units were changed
\* after its storage was created
C5_Witness ==
    /\ last.op = "write" /\ last.result = "ValueError"
    /\ \E id \in DOMAIN file.dsets :
          /\ file.dsets[id].cols = 3
          /\ new_dlen_of(Samples(id)) > 0
          /\ UnitsLen(data_set.arrays[id].units) # 3

\* C6: the attributes of a stored array are those written when its storage
\* was created: no step changes or removes them, whatever the in-memory
\* label, name, units or set_arrays have become.
C6_AttrsWrittenOnce ==
    [][\A id \in DOMAIN file.dsets :
          /\ id \in DOMAIN file'.dsets
          /\ file'.dsets[id].attrs = file.dsets[id].attrs]_vars

\* an unforced write has returned on an array whose in-memory label and
\* units differ from the stored ones
C6_Witness ==
    /\ last.op = "write" /\ ~last.force_write /\ last.result = "ok"
    /\ \E id \in DOMAIN file.dsets :
          /\ Attrs(id)["label"] # encode_to_utf8(LabelOf(id))
          /\ Attrs(id)["units"] #
                encode_to_utf8(StrUnits(data_set.arrays[id].units))

\* C7: a stored array has a set_arrays attribute exactly when its
\* is_setpoint attribute is "False", and the attribute lists the ids of the
\* in-memory set_arrays, in order, as they were when the storage was created.
C7_SetArraysIffNotSetpoint ==
    [][\A id \in DOMAIN file'.dsets :
          /\ "set_arrays" \in DOMAIN file'.dsets[id].attrs
                <=> file'.dsets[id].attrs["is_setpoint"] =
                        encode_to_utf8("False")
          /\ file'.dsets[id].attrs["is_setpoint"] \in
                {encode_to_utf8("True"), encode_to_utf8("False")}
          /\ id \notin DOMAIN file.dsets =>
                /\ file'.dsets[id].attrs["is_setpoint"] =
                      encode_to_utf8(StrBool(data_set.arrays[id].is_setpoint))
                /\ ~data_set.arrays[id].is_setpoint =>
                      /\ Len(file'.dsets[id].attrs["set_arrays"]) =
                            Len(data_set.arrays[id].set_arrays)
                      /\ \A i \in 1..Len(data_set.arrays[id].set_arrays) :
                            decode(file'.dsets[id].attrs["set_arrays"][i]) =
                                data_set.arrays[id].set_arrays[i]]_vars

\* a setpoint array with in-memory set_arrays is stored without the
\* attribute, next to an array stored with two referenced ids
C7_Witness ==
    /\ \E id \in DOMAIN file.dsets :
          /\ data_set.arrays[id].is_setpoint
          /\ data_set.arrays[id].set_arrays # <<>>
          /\ "set_arrays" \notin DOMAIN Attrs(id)
    /\ \E id \in DOMAIN file.dsets :
          /\ "set_arrays" \in DOMAIN Attrs(id)
          /\ Len(Attrs(id)["set_arrays"]) = 2

----------------------------------------------------------------------------
(* Properties of read, checked under SpecRead *)

\* the text stored in the is_setpoint attribute of array id
Token(id) == decode(Attrs(id)["is_setpoint"])

\* the container holds setpoint x and y measured against x, as written
StoredXY ==
    /\ DOMAIN file.dsets = {"x", "y"}
    /\ Token("x") = "True"
    /\ Token("y") = "False"
    /\ Attrs("y")["set_arrays"] = <<encode_to_utf8("x")>>

\* C8: reading a container written from setpoint x and y with set_arrays
\* (x) returns normally with y.set_arrays holding the reconstructed array x
\* itself, in whatever order the stored ids are iterated.
C8_RoundTripSetArrays ==
    (last.op = "read" /\ StoredXY) =>
        /\ last.result = "ok"
        /\ DOMAIN read_set.arrays = {"x", "y"}
        /\ read_set.arrays["x"].is_setpoint
        /\ read_set.arrays["y"].set_arrays = <<Ref("x")>>

\* the read constructed y before x
C8_Witness ==
    /\ last.op = "read" /\ StoredXY /\ last.result = "ok"
    /\ read_set.keys = <<"y", "x">>
    /\ read_set.arrays["y"].set_arrays = <<Ref("x")>>

\* the ids stored in the set_arrays attribute of array id
StoredIds(id) ==
    [i \in 1..Len(Attrs(id)["set_arrays"]) |->
        decode(Attrs(id)["set_arrays"][i])]

\* some non-setpoint stored array references an id that is not stored
Dangling ==
    \E id \in DOMAIN file.dsets :
        /\ Token(id) = "False"
        /\ \E i \in 1..Len(StoredIds(id)) :
              StoredIds(id)[i] \notin DOMAIN file.dsets

ValidTokens == \A id \in DOMAIN file.dsets : Token(id) \in {"True", "False"}

\* C9: after read returns normally every non-setpoint array's set_arrays
\* holds, in stored order, one reference per stored id to an array of the
\* data set (setpoint arrays hold none); when a stored id names no stored
\* array, read ends with KeyError.
C9_SetArraysResolved ==
    last.op = "read" =>
        /\ last.result = "ok" =>
              /\ DOMAIN read_set.arrays = DOMAIN file.dsets
              /\ \A id \in DOMAIN file.dsets :
                    /\ read_set.arrays[id].set_arrays =
                          IF Token(id) = "False"
                          THEN [i \in 1..Len(StoredIds(id)) |->
                                   Ref(StoredIds(id)[i])]
                          ELSE <<>>
                    /\ \A i \in 1..Len(read_set.arrays[id].set_arrays) :
                          read_set.arrays[id].set_arrays[i].object
                              \in DOMAIN read_set.arrays
        /\ (file.exists /\ ValidTokens /\ Dangling) =>
              last.result = "KeyError"

\* read met the stored id "z", which names no stored array
C9_Witness ==
    /\ last.op = "read" /\ last.result = "KeyError"
    /\ ValidTokens /\ Dangling
    /\ DOMAIN read_set.arrays = {"x", "y"}

\* C10: read takes the flag of an array from the stored token: True for
\* "True", False for "False"; when any stored token is another text read
\* ends with ValueError and no array gets a flag from that token.
C10_StrictBool ==
    last.op = "read" =>
        /\ \A id \in DOMAIN read_set.arrays :
              /\ Token(id) \in {"True", "False"}
              /\ read_set.arrays[id].is_setpoint = (Token(id) = "True")
        /\ (file.exists /\ ~ValidTokens) => last.result = "ValueError"

\* read met the token "yes"
C10_Witness ==
    /\ last.op = "read" /\ last.result = "ValueError"
    /\ \E id \in DOMAIN file.dsets : Token(id) = "yes"

----------------------------------------------------------------------------
(* Properties of _encode_to_utf8, checked under SpecEncode *)

\* C11: _encode_to_utf8 returns, without raising, the UTF-8 bytes of a text,
\* the list of the UTF-8 bytes of the items of a list of texts, and the
\* UTF-8 bytes of str(s) for any other value s (an int, None, a bool).
C11_EncodeAnyValue ==
    last.op = "_encode_to_utf8" =>
        LET s == last.arg
            r == last.result
        IN  /\ s.type = "str" =>
                  r.raised = "no" /\ r.value = encode_to_utf8(s.repr)
            /\ (s.type = "list"
                    /\ \A i \in 1..Len(s.items) : s.items[i].type = "str") =>
                  /\ r.raised = "no"
                  /\ Len(r.value) = Len(s.items)
                  /\ \A i \in 1..Len(s.items) :
                        r.value[i] = encode_to_utf8(s.items[i].repr)
            /\ s.type \in {"int", "NoneType", "bool"} =>
                  r.raised = "no" /\ r.value = encode_to_utf8(s.repr)

----------------------------------------------------------------------------
(* Round trip of label, name and units, checked under SpecRead *)

NameOf(id) ==
    IF data_set.arrays[id].name # None THEN data_set.arrays[id].name ELSE id

\* Python's == between the units read back (a text or None) and a units
\* descriptor: a text equals only a text of the same characters
UnitsEqual(text, u) ==
    IF u.kind = "none" THEN text = None
    ELSE u.kind = "str" /\ text = Concat(u.elems)

\* C12: every array written and read back has the label, name and units of
\* the in-memory array it was written from, an absent label or name being
\* replaced by the array_id.
C12_MetaRoundTrip ==
    (last.op = "read" /\ last.result = "ok") =>
        \A id \in DOMAIN read_set.arrays :
            /\ read_set.arrays[id].label = LabelOf(id)
            /\ read_set.arrays[id].name = NameOf(id)
            /\ UnitsEqual(read_set.arrays[id].units, data_set.arrays[id].units)

----------------------------------------------------------------------------
(* Properties of the file handles, checked under SpecFiles *)

\* C13: a write call opens a file exactly when the formatter holds no
\* handle or force_write is set, and then it create-or-opens the file at
\* <location>/<basename(location)>.hdf5; any other write call keeps the
\* handle it holds and opens nothing, wherever the data set lives.
C13_OpensIffNoHandleOrForced ==
    [][last'.op = "write" =>
          IF data_object = None \/ last'.force_write
          THEN /\ last'.opened = FilePath(data_set.location)
               /\ data_object' = FilePath(data_set.location)
               /\ files'[FilePath(data_set.location)].exists
          ELSE /\ last'.opened = None
               /\ data_object' = data_object
               /\ \A path \in FilePaths :
                      files'[path].exists = files[path].exists]_vars

\* a write reused the handle of another file than the data set's
C13_Witness ==
    /\ last.op = "write"
    /\ last.opened = None
    /\ data_object # FilePath(data_set.location)
    /\ ~file.exists

----------------------------------------------------------------------------
(* A forced write after a write, checked under Spec *)

\* C14: a write call with force_write right after a successful write of the
\* same data set by the same formatter completes without error and leaves
\* every array persisted: as many rows as populated samples, row i equal to
\* sample i.
C14_ForcedRewriteSucceeds ==
    [][(/\ last.op = "write"
        /\ last.result = "ok"
        /\ last'.op = "write"
        /\ last'.force_write)
       => (last'.result = "ok" /\ \A id \in ArrayIds : Persisted(id)')]_vars

----------------------------------------------------------------------------
(* The handles a formatter keeps open, checked under SpecFiles *)

\* The open file handles the formatter keeps alive: the one data_object
\* holds, and the one an arr_group made from an earlier handle keeps open
\* (no code path calls close; h5py closes a file that went out of scope
\* only once no object of it remains).
open_handles ==
    (IF data_object = None THEN 0 ELSE 1)
        + (IF arr_group.of = "earlier" THEN 1 ELSE 0)

\* C15: in every reachable state of one formatter at most one handle to a
\* container is open.
C15_AtMostOneHandle == open_handles <= 1

----------------------------------------------------------------------------
(* A write that fails part-way, checked under Spec *)

\* C16: a write call that ends with an exception leaves every stored array
\* with all the rows it had before the call, each with its previous value.
C16_FailedWriteKeepsRows ==
    [][(last'.op = "write" /\ last'.result # "ok")
       => \A id \in DOMAIN file.dsets :
             /\ id \in DOMAIN file'.dsets
             /\ Len(Rows(id)') >= Len(Rows(id))
             /\ \A i \in 1..Len(Rows(id)) : Rows(id)'[i] = Rows(id)[i]]_vars

----------------------------------------------------------------------------
(* save_instrument_snapshot, checked under SpecFiles *)

\* the instrument groups the snapshot asks for: one attribute per
\* parameter, the str() of its value or '' without a "value" entry
snapshot_groups(snapshot) ==
    [iname \in DOMAIN snapshot.instruments |->
        [p_name \in DOMAIN snapshot.instruments[iname] |->
            IF snapshot.instruments[iname][p_name].has_value
            THEN snapshot.instruments[iname][p_name].value.repr
            ELSE ""]]

\* C17: save_instrument_snapshot(snapshot) completes and leaves in the
\* open file a 'Meta-data' group with one group per instrument of the
\* snapshot and one attribute per parameter, whatever the insertion order.
C17_SnapshotStored ==
    last.op = "save_instrument_snapshot" =>
        /\ last.result = "ok"
        /\ files[data_object].has_meta
        /\ files[data_object].meta = snapshot_groups(last.snapshot)

----------------------------------------------------------------------------
(* The arrays group used by the loop of write, checked under SpecFiles *)

\* C18: in every write call the loop over the arrays runs with arr_group
\* set to the 'Data Arrays' group of the handle data_object holds.
C18_ArrGroupOfCurrentHandle ==
    [][last'.op = "write" =>
          /\ arr_group' # Unset
          /\ arr_group'.of = "current"
          /\ arr_group'.file = data_object']_vars

----------------------------------------------------------------------------
(* The arrays read adds, checked under SpecReadRows *)

\* C19: read adds one array per stored array id and none for any other id,
\* keyed by that id; its samples are column 0 of all the stored rows and
\* its is_setpoint is the stored flag.
C19_OneArrayPerStoredId ==
    last.op = "read" =>
        /\ DOMAIN read_set.arrays \subseteq DOMAIN file.dsets
        /\ last.result = "ok" => DOMAIN read_set.arrays = DOMAIN file.dsets
        /\ Len(read_set.keys) = Cardinality(DOMAIN read_set.arrays)
        /\ \A id \in DOMAIN read_set.arrays :
              /\ \E i \in 1..Len(read_set.keys) : read_set.keys[i] = id
              /\ Len(read_set.arrays[id].ndarray) = Len(Rows(id))
              /\ \A i \in 1..Len(Rows(id)) :
                    read_set.arrays[id].ndarray[i] = Rows(id)[i][1]
              /\ read_set.arrays[id].is_setpoint = (Token(id) = "True")

\* read returned both arrays, one of them with two stored rows
C19_Witness ==
    /\ last.op = "read"
    /\ last.result = "ok"
    /\ DOMAIN read_set.arrays = {"x", "y"}
    /\ Len(Rows("x")) = 2
    /\ read_set.arrays["x"].ndarray = <<Sample("x", 1), Sample("x", 2)>>

----------------------------------------------------------------------------
(* The data set handed to write, checked under SpecMeta *)

\* C20: a write call leaves the data set as it was: the same array ids and,
\* for every array, the same samples, name, label, is_setpoint and
\* set_arrays.  Only units may change, from None to the placeholder [''],
\* and only for an array whose stored array the call set out to create.
C20_WriteKeepsDataSet ==
    [][last'.op = "write" =>
          /\ data_set'.location = data_set.location
          /\ data_set'.keys = data_set.keys
          /\ DOMAIN data_set'.arrays = DOMAIN data_set.arrays
          /\ \A id \in DOMAIN data_set.arrays :
                /\ data_set'.arrays[id].ndarray = data_set.arrays[id].ndarray
                /\ data_set'.arrays[id].name = data_set.arrays[id].name
                /\ data_set'.arrays[id].label = data_set.arrays[id].label
                /\ data_set'.arrays[id].is_setpoint =
                       data_set.arrays[id].is_setpoint
                /\ data_set'.arrays[id].set_arrays =
                       data_set.arrays[id].set_arrays
                /\ \/ data_set'.arrays[id].units = data_set.arrays[id].units
                   \/ /\ data_set.arrays[id].units = UnitsNone
                      /\ data_set'.arrays[id].units = UnitsList(<<"">>)
                      /\ id \notin DOMAIN file.dsets \/ last'.force_write]_vars

\* a write replaced absent units by the placeholder and left an absent
\* label alone
C20_Witness ==
    /\ last.op = "write"
    /\ last.result = "ok"
    /\ \E id \in ArrayIds :
          /\ data_set.arrays[id].units = UnitsList(<<"">>)
          /\ data_set.arrays[id].label = None

----------------------------------------------------------------------------
(* FSV3030, spectrum analyzer mode: the sweep limits, SpecSweep *)

\* no formatter is in use while a driver is exercised
IdleFormatter ==
    /\ data_set = [location |-> HomeLocation, keys |-> <<>>, arrays |-> <<>>]
    /\ data_object = None
    /\ arr_group = Unset
    /\ files = NoFiles
    /\ read_set = EmptySet
    /\ last = NoCall
    /\ appending = TRUE
    /\ edits = 0

Freqs == 0..MaxFreq

\* a command written to the instrument with its argument
Command(cmd, val) == [cmd |-> cmd, val |-> val]

Abs(n) == IF n < 0 THEN -n ELSE n

\* _set_start refusing only a start above the stop frequency
set_start_allow_equal(instr, val) ==
    IF val > instr.stop
    THEN [instr |-> instr, result |-> "ValueError", written |-> <<>>,
          warned |-> FALSE]
    ELSE [instr |-> [instr EXCEPT !.start = val], result |-> "ok",
          written |-> <<Command(":SENSe:FREQuency:STARt", val)>>,
          warned |-> FALSE]

\* SpectrumAnalyzerMode._set_start(val) on an instrument that takes the
\* value written: read stop, refuse val >= stop, write, read start back
\* and warn when it is off by 1 Hz or more
set_start(instr, val) ==
    LET stop == instr.stop
        instr1 == [instr EXCEPT !.start = val]
        start == instr1.start
    IN  IF val >= stop
        THEN [instr |-> instr, result |-> "ValueError", written |-> <<>>,
              warned |-> FALSE]
        ELSE [instr |-> instr1, result |-> "ok",
              written |-> <<Command(":SENSe:FREQuency:STARt", val)>>,
              warned |-> Abs(val - start) >= 1]

\* SpectrumAnalyzerMode._set_stop(val), likewise
set_stop(instr, val) ==
    LET start == instr.start
        instr1 == [instr EXCEPT !.stop = val]
        stop == instr1.stop
    IN  IF val <= start
        THEN [instr |-> instr, result |-> "ValueError", written |-> <<>>,
              warned |-> FALSE]
        ELSE [instr |-> instr1, result |-> "ok",
              written |-> <<Command(":SENSe:FREQuency:STOP", val)>>,
              warned |-> Abs(val - stop) >= 1]

\* the instrument sweeps from start to stop, start below stop
InitSweep ==
    /\ IdleFormatter
    /\ \E start \in Freqs, stop \in Freqs :
          /\ start < stop
          /\ instrument = [model |-> "FSV3030", start |-> start, stop |-> stop]
    /\ call = NoDriverCall

SetStart(val) ==
    LET S == set_start(instrument, val)
    IN  /\ instrument' = S.instr
        /\ call' = [op |-> "_set_start", val |-> val, result |-> S.result,
                    written |-> S.written, warned |-> S.warned]
        /\ UNCHANGED hdf5_vars

SetStop(val) ==
    LET S == set_stop(instrument, val)
    IN  /\ instrument' = S.instr
        /\ call' = [op |-> "_set_stop", val |-> val, result |-> S.result,
                    written |-> S.written, warned |-> S.warned]
        /\ UNCHANGED hdf5_vars

NextSweep ==
    \/ \E val \in Freqs : SetStart(val)
    \/ \E val \in Freqs : SetStop(val)

SpecSweep == InitSweep /\ [][NextSweep]_vars

\* C21: _set_start(val) with val >= stop and _set_stop(val) with
\* val <= start raise ValueError and write nothing to the instrument, and
\* after every start or stop set call the start frequency is below the
\* stop frequency.
C21_StartBelowStop ==
    [][/\ (call'.op = "_set_start" /\ call'.val >= instrument.stop) =>
             /\ call'.result = "ValueError"
             /\ call'.written = <<>>
             /\ instrument' = instrument
       /\ (call'.op = "_set_stop" /\ call'.val <= instrument.start) =>
             /\ call'.result = "ValueError"
             /\ call'.written = <<>>
             /\ instrument' = instrument
       /\ instrument'.start < instrument'.stop]_vars

\* a start equal to the stop frequency was refused
C21_Witness ==
    /\ call.op = "_set_start"
    /\ call.val = instrument.stop
    /\ call.result = "ValueError"
    /\ instrument.start < instrument.stop

----------------------------------------------------------------------------
(* FSV3030._single_meas and the instrument it polls: SpecMeas *)

\* bits of the IEEE 488.2 event status register, by weight: operation
\* complete, command error, power on
OPC == 1

OtherBits == {32, 128}

RECURSIVE SumOf(_)
SumOf(S) ==
    IF S = {} THEN 0
    ELSE LET b == CHOOSE b \in S : TRUE IN b + SumOf(S \ {b})

\* the answer to "*ESR?" alone: the register in decimal; reading clears it
ask_esr_only(instr) ==
    [instr |-> [instr EXCEPT !.esr = {}], x |-> SumOf(instr.esr)]

\* self.ask("*OPC; *ESR?").  *OPC sets the operation-complete bit once no
\* operation is pending, at once when none is; *ESR? answers the register
\* in decimal and clears it.
ask_opc_esr(instr) ==
    LET esr == IF instr.busy THEN instr.esr ELSE instr.esr \cup {OPC}
    IN  [instr |-> [instr EXCEPT !.esr = {}, !.opc_armed = instr.busy],
         x |-> SumOf(esr)]

\* the instrument is idle; events raised earlier may still be latched
InitMeas ==
    /\ IdleFormatter
    /\ \E cont \in BOOLEAN, esr \in SUBSET OtherBits :
          instrument = [model |-> "FSV3030", cont |-> cont, busy |-> FALSE,
                        opc_armed |-> FALSE, esr |-> esr, events |-> 0]
    /\ call = NoDriverCall

\* _single_meas is called
SingleMeas ==
    /\ call.pc = "done"
    /\ call' = [op |-> "_single_meas", pc |-> "cont_meas", x |-> 0,
                written |-> <<>>, with_others |-> FALSE]
    /\ UNCHANGED <<hdf5_vars, instrument>>

\* line 696: self.cont_meas("OFF")
ContMeasOff ==
    /\ call.op = "_single_meas" /\ call.pc = "cont_meas"
    /\ instrument' = [instrument EXCEPT !.cont = FALSE]
    /\ call' = [call EXCEPT !.pc = "init",
                            !.written = Append(@, ":INITiate:CONTinuous OFF")]
    /\ UNCHANGED hdf5_vars

\* line 697: self.write("INIT") starts one measurement
WriteInit ==
    /\ call.op = "_single_meas" /\ call.pc = "init"
    /\ instrument' = [instrument EXCEPT !.busy = TRUE]
    /\ call' = [call EXCEPT !.pc = "ask", !.written = Append(@, "INIT")]
    /\ UNCHANGED hdf5_vars

\* lines 698-701: one ask and the loop test x != "1"; written keeps the
\* commands sent before the polling starts, with_others (history) tells
\* that an answer held operation-complete along with other bits
Ask ==
    LET A == ask_opc_esr(instrument)
    IN  /\ call.op = "_single_meas" /\ call.pc = "ask"
        /\ instrument' = A.instr
        /\ call' = [call EXCEPT
                        !.x = A.x,
                        !.pc = IF A.x = 1 THEN "done" ELSE "ask",
                        !.with_others = @ \/ (A.x % 2 = 1 /\ A.x # 1)]
        /\ UNCHANGED hdf5_vars

\* the instrument completes the measurement
Finish ==
    /\ instrument.busy
    /\ instrument' = [instrument EXCEPT
                          !.busy = FALSE,
                          !.opc_armed = FALSE,
                          !.esr = IF instrument.opc_armed THEN @ \cup {OPC}
                                  ELSE @]
    /\ UNCHANGED <<hdf5_vars, call>>

\* the instrument latches another event
Event(bit) ==
    /\ instrument.events < MaxEvents
    /\ instrument' = [instrument EXCEPT !.esr = @ \cup {bit},
                                        !.events = @ + 1]
    /\ UNCHANGED <<hdf5_vars, call>>

NextMeas ==
    \/ SingleMeas
    \/ ContMeasOff
    \/ WriteInit
    \/ Ask
    \/ Finish
    \/ \E bit \in OtherBits : Event(bit)

\* the driver keeps running and the instrument completes what it started
SpecMeas ==
    /\ InitMeas
    /\ [][NextMeas]_vars
    /\ WF_vars(ContMeasOff)
    /\ WF_vars(WriteInit)
    /\ WF_vars(Ask)
    /\ WF_vars(Finish)

\* C22: _single_meas has written ":INITiate:CONTinuous OFF" and then INIT
\* when it starts polling, it returns only when the measurement it started
\* has finished, and once called it does return, whatever other bits the
\* answers to "*OPC; *ESR?" hold.
C22_SingleMeasReturns ==
    /\ [](call.pc \in {"ask", "done"} /\ call.op = "_single_meas" =>
             /\ call.written = <<":INITiate:CONTinuous OFF", "INIT">>
             /\ ~instrument.cont)
    /\ [](call.pc = "done" /\ call.op = "_single_meas" => ~instrument.busy)
    /\ (call.pc # "done") ~> (call.pc = "done")

\* _single_meas returned after an answer that held operation-complete
\* along with another bit
C22_Witness ==
    /\ call.op = "_single_meas"
    /\ call.pc = "done"
    /\ call.with_others
    /\ call.x = 1

----------------------------------------------------------------------------
(* AH2550.averages_converter: SpecAverages *)

\* vals of the averaging parameter: Ints(0, 15)
Averagings == 0..15

\* _avg_cold and _avg_warm, in milliseconds, for averaging 0, 1, ...
avg_cold ==
    <<360, 400, 450, 530, 630, 790, 1100, 1640, 2500, 4000, 6900, 12000,
      23000, 44000, 85000, 184000>>

avg_warm == <<38, 56, 84, 133, 215, 350, 580>>

\* looking avgs up in a dict with keys 0 .. Len(table) - 1
Lookup(table, avgs) ==
    IF avgs + 1 \in DOMAIN table
    THEN [raised |-> "no", value |-> table[avgs + 1]]
    ELSE [raised |-> "KeyError", value |-> 0]

\* averages_converter(avgs, cold_start).  The statement under
\* `if avgs > 6` is the comparison `cold_start == True`, which assigns
\* nothing, so cold_start is the argument as passed.
averages_converter(avgs, cold_start) ==
    IF cold_start = TRUE THEN Lookup(avg_cold, avgs)
    ELSE Lookup(avg_warm, avgs)

InitAverages ==
    /\ IdleFormatter
    /\ \E averaging \in Averagings :
          instrument = [model |-> "AH2550", averaging |-> averaging]
    /\ call = NoDriverCall

\* the averaging parameter is set: "AVERAGE {}"
SetAveraging(val) ==
    /\ val # instrument.averaging
    /\ instrument' = [instrument EXCEPT !.averaging = val]
    /\ call' = [op |-> "averaging", pc |-> "done", val |-> val]
    /\ UNCHANGED hdf5_vars

AveragesConverter(avgs, cold_start) ==
    /\ call' = [op |-> "averages_converter", pc |-> "done", avgs |-> avgs,
                cold_start |-> cold_start,
                result |-> averages_converter(avgs, cold_start)]
    /\ UNCHANGED <<hdf5_vars, instrument>>

NextAverages ==
    \/ \E val \in Averagings : SetAveraging(val)
    \/ \E avgs \in Averagings, cold_start \in BOOLEAN :
          AveragesConverter(avgs, cold_start)

SpecAverages == InitAverages /\ [][NextAverages]_vars

\* C23: averages_converter returns a time for every averaging value 0..15
\* and either cold_start: the warm-start time for avgs <= 6 unless
\* cold_start is True, the cold-start time for avgs > 6 in any case.
C23_AveragesConverted ==
    call.op = "averages_converter" =>
        /\ call.result.raised = "no"
        /\ call.result.value =
              IF call.cold_start \/ call.avgs > 6
              THEN avg_cold[call.avgs + 1]
              ELSE avg_warm[call.avgs + 1]

----------------------------------------------------------------------------
(* yokogawa7651._set_output_direct: SpecOutput *)

\* Levels are in microvolts.  The step of the ramp, 0.01
Step == 10000

\* the spacing of the numbers "{:.5e}" can print (six significant digits)
\* around v, for |v| below 100 V
Grid(v) ==
    IF Abs(v) >= 10000000 THEN 100
    ELSE IF Abs(v) >= 1000000 THEN 10
    ELSE 1

\* the level the instrument receives for "S{:.5e}E".format(v): v rounded
\* to six significant digits
FormatE5(v) ==
    LET g == Grid(v)
        r == ((Abs(v) + g \div 2) \div g) * g
    IN  IF v < 0 THEN -r ELSE r

\* int(abs(N)) for N = (output_level - current_value) / 0.01.  When the
\* quotient is a whole number k the floating-point division may give a
\* value just below k.
whole_steps(current_value, output_level) ==
    LET d == Abs(output_level - current_value)
    IN  IF d % Step = 0 /\ d > Step THEN {d \div Step - 1, d \div Step}
        ELSE {d \div Step}

\* _set_output_direct writing the target level at once
set_output_direct_at_once(current_value, output_level, n) ==
    <<FormatE5(output_level)>>

\* the levels _set_output_direct(mode, output_level) writes when "OD"
\* reads current_value and int(abs(N)) is n
set_output_direct(current_value, output_level, n) ==
    IF Abs(output_level - current_value) <= Step
    THEN <<FormatE5(output_level)>>
    ELSE LET sign == IF output_level > current_value THEN 1 ELSE -1
         IN  [k \in 1..(n + 1) |->
                 FormatE5(current_value + sign * Step * (k - 1))]
                 \o <<FormatE5(output_level)>>

\* output levels the instrument may be at when the driver connects
InitialLevels == {9990000, 9999960, 10000000}

\* the levels asked for
Targets ==
    {9970000, 9980000, 9995123, 9999960, 10000000, 10004567, 10009960,
     10015000, 10020040, 10030000}

InitOutput ==
    /\ IdleFormatter
    /\ \E level \in InitialLevels :
          instrument = [model |-> "7651", level |-> level]
    /\ call = NoDriverCall

SetOutputDirect(output_level, n) ==
    LET written == set_output_direct(instrument.level, output_level, n)
    IN  /\ instrument' = [instrument EXCEPT !.level = written[Len(written)]]
        /\ call' = [op |-> "_set_output_direct", pc |-> "done",
                    current_value |-> instrument.level,
                    output_level |-> output_level, written |-> written]
        /\ UNCHANGED hdf5_vars

NextOutput ==
    \E output_level \in Targets :
        \E n \in whole_steps(instrument.level, output_level) :
            SetOutputDirect(output_level, n)

SpecOutput == InitOutput /\ [][NextOutput]_vars

\* C24: the levels _set_output_direct writes start within 0.01 of the
\* reading, change by at most 0.01 from one write to the next and end with
\* exactly the target level; a target within 0.01 of the reading is
\* written alone.
C24_RampInSteps ==
    call.op = "_set_output_direct" =>
        LET w == call.written
            c == call.current_value
            t == call.output_level
        IN  /\ Abs(w[1] - c) <= Step
            /\ \A k \in 1..(Len(w) - 1) : Abs(w[k + 1] - w[k]) <= Step
            /\ w[Len(w)] = t
            /\ Abs(t - c) <= Step => w = <<t>>

\* C24, amended: every level is written rounded to six significant digits.
\* The levels start within 0.01 of the reading and change by at most 0.01
\* from one write to the next, up to half a rounding step for each rounded
\* level; the last is the rounded target level; a target within 0.01 of
\* the reading is written alone.
C24_RampInRoundedSteps ==
    call.op = "_set_output_direct" =>
        LET w == call.written
            c == call.current_value
            t == call.output_level
        IN  /\ Abs(w[1] - c) <= Step + Grid(w[1]) \div 2
            /\ \A k \in 1..(Len(w) - 1) :
                  Abs(w[k + 1] - w[k])
                      <= Step + Grid(w[k]) \div 2 + Grid(w[k + 1]) \div 2
            /\ w[Len(w)] = FormatE5(t)
            /\ Abs(t - c) <= Step => w = <<FormatE5(t)>>

\* a ramp of several writes in which rounding stretched a step beyond 0.01
C24_Witness ==
    /\ call.op = "_set_output_direct"
    /\ Len(call.written) > 2
    /\ \E k \in 1..(Len(call.written) - 1) :
          Abs(call.written[k + 1] - call.written[k]) > Step

====
